---- MODULE Spec2Model ----
(***************************************************************************)
(* Conway's Game of Life on a toroidal grid: the Universe of src/lib.rs.   *)
(*                                                                         *)
(* Cells are held as the bytes of #[repr(u8)] Cell (Dead = 0, Alive = 1),  *)
(* the cell vector as a sequence (Rust's index i is element i + 1).        *)
(*                                                                         *)
(* u32 values are held as their two's-complement reading: v < 2^31 as v    *)
(* and v >= 2^31 as v - 2^32, so 4294967295 is -1.  Only the anchors of    *)
(* set_pattern take values of the second kind; widths, heights, rows and   *)
(* columns stay small.                                                     *)
(*                                                                         *)
(* A panic ends the life of the Universe: the state keeps what had been    *)
(* written before the panic, panicked becomes TRUE and no call follows.    *)
(***************************************************************************)
EXTENDS Integers, Sequences, FiniteSets, TLC

VARIABLES
    width,            \* Universe.width
    height,           \* Universe.height
    cells,            \* Universe.cells
    panicked,         \* the last call panicked
    overflow_checks,  \* the build: TRUE panics on u32 overflow, FALSE wraps
    call,             \* ghost: the last call and what it was given
    hist              \* ghost: what a scenario started from, and its ticks since

vars == <<width, height, cells, panicked, overflow_checks, call, hist>>

----------------------------------------------------------------------------
(* Bounds of the model.                                                    *)

\* set_width and set_height draw the new dimension from 0..MaxDim
MaxDim == 3
\* outside a scenario, calls that read or write single cells are explored
\* on grids of at most MaxCells cells
MaxCells == 4
\* outside a scenario, set_pattern draws each anchor coordinate from
\* 0..MaxStart, from 2^31 and from 2^32 - 1 and 2^32 - MaxBelowTop
MaxStart == 0
MaxBelowTop == 1
\* randomize draws the random source from RandomSource(0) .. RandomSource(MaxSeed)
MaxSeed == 3
\* a scenario is followed for at most MaxTicks generations
MaxTicks == 4
\* a scenario on a drawn grid: 0..MaxLifeDim rows and columns, at most
\* MaxLifeCells cells (MaxOverlayCells when a pattern is stamped over it)
MaxLifeDim == 4
MaxLifeCells == 9
MaxOverlayCells == 4
\* a scenario that toggles a cell: a drawn grid of at most MaxToggleCells cells
MaxToggleCells == 6
\* a scenario with a hand-set figure: 4..MaxFigureDim rows and columns
MaxFigureDim == 6
\* a scenario with a stamped glider: 5..MaxGliderDim rows and columns
MaxGliderDim == 6
\* a scenario with a stamped pulsar: 17..MaxPulsarDim rows and columns
MaxPulsarDim == 18
\* a scenario draws each anchor coordinate from 0..MaxStampStart, from 2^31
\* and from 2^32 - 1 and 2^32 - MaxStampBelowTop
MaxStampStart == 1
MaxStampBelowTop == 5

----------------------------------------------------------------------------
(* Cell                                                                    *)

Dead == 0
Alive == 1

\* (variant: the cell is set Alive whatever it was)
toggle_sets_alive(cell) == Alive

\* *self = match *self { Cell::Dead => Cell::Alive, Cell::Alive => Cell::Dead }
toggle(cell) == IF cell = Dead THEN Alive ELSE Dead

----------------------------------------------------------------------------
(* u32 arithmetic on the two's-complement reading                          *)

\* 2^32 mod m, for 0 < m < 2^15
Pow32Mod(m) == ((65536 % m) * (65536 % m)) % m

\* a + d overflows u32 (d >= 0 small): the sum passes 2^32
add_overflows(a, d) == a < 0 /\ a + d >= 0

\* a % m for the u32 value read as a
rem_u32(a, m) == IF a >= 0 THEN a % m ELSE ((a % m) + Pow32Mod(m)) % m

----------------------------------------------------------------------------
(* The Universe as a value: what a method reads and what it leaves.        *)

Self == [width |-> width, height |-> height, cells |-> cells, panicked |-> panicked]

AllDead(n) == [i \in 1..n |-> Dead]

\* (variant: && in the place of ||)
new_both_multiples ==
    [width |-> 64, height |-> 64,
     cells |-> [k \in 1..(64 * 64) |->
                  LET i == k - 1 IN IF i % 2 = 0 /\ i % 7 = 0 THEN Alive ELSE Dead],
     panicked |-> FALSE]

\* let width = 64; let height = 64; cells from (0..width * height).map(...)
new ==
    [width |-> 64, height |-> 64,
     cells |-> [k \in 1..(64 * 64) |->
                  LET i == k - 1 IN IF i % 2 = 0 \/ i % 7 = 0 THEN Alive ELSE Dead],
     panicked |-> FALSE]

get_index(self, row, column) == row * self.width + column

\* (variant: the width is set and the cells are kept)
set_width_keeps_cells(self, w) == [self EXCEPT !.width = w]

\* self.width = width; self.cells = (0..width * self.height) all Dead
set_width(self, w) ==
    [self EXCEPT !.width = w, !.cells = AllDead(w * self.height)]

\* (variant: nothing is done when the height is the one given)
set_height_if_changed(self, h) ==
    IF h = self.height THEN self
    ELSE [self EXCEPT !.height = h, !.cells = AllDead(self.width * h)]

\* self.height = height; self.cells = (0..self.width * height) all Dead
set_height(self, h) ==
    [self EXCEPT !.height = h, !.cells = AllDead(self.width * h)]

toggle_cell(self, row, column) ==
    LET idx == get_index(self, row, column) IN
    IF idx < Len(self.cells)
    THEN [self EXCEPT !.cells[idx + 1] = toggle(self.cells[idx + 1])]
    ELSE [self EXCEPT !.panicked = TRUE]

clear(self) == [self EXCEPT !.cells = AllDead(self.width * self.height)]

\* Math.random() < 0.3 for the k-th draw of source number seed
RandomSource(seed, k) == ((seed \div (2 ^ (k % 3))) % 2) = 1

randomize(self, seed) ==
    [self EXCEPT !.cells = [i \in 1..(self.width * self.height) |->
                              IF RandomSource(seed, i - 1) THEN Alive ELSE Dead]]

----------------------------------------------------------------------------
(* Neighbour counting and the generation step                              *)

\* the k-th pass (k in 0..8) of the two nested loops over
\* [height - 1, 0, 1] and [width - 1, 0, 1]: the index it reads the cells
\* at, or -1 if it reads none (continue)
neighbor_read(self, row, column, k) ==
    LET delta_row == <<self.height - 1, 0, 1>>[(k \div 3) + 1]
        delta_col == <<self.width - 1, 0, 1>>[(k % 3) + 1]
        neighbor_row == (row + delta_row) % self.height
        neighbor_col == (column + delta_col) % self.width
        idx == get_index(self, neighbor_row, neighbor_col)
    IN  IF delta_row = 0 /\ delta_col = 0 THEN -1 ELSE idx

\* (variant: no pass is skipped, the cell counts itself)
neighbor_term_with_self(self, row, column, k) ==
    LET delta_row == <<self.height - 1, 0, 1>>[(k \div 3) + 1]
        delta_col == <<self.width - 1, 0, 1>>[(k % 3) + 1]
        neighbor_row == (row + delta_row) % self.height
        neighbor_col == (column + delta_col) % self.width
        idx == get_index(self, neighbor_row, neighbor_col)
    IN  self.cells[idx + 1]

\* what the k-th pass adds to count: self.cells[idx] as u8
neighbor_term(self, row, column, k) ==
    LET idx == neighbor_read(self, row, column, k)
    IN  IF idx = -1 THEN 0 ELSE self.cells[idx + 1]

RECURSIVE neighbor_sum(_, _, _, _)
neighbor_sum(self, row, column, k) ==
    IF k = 9 THEN 0
    ELSE neighbor_term(self, row, column, k) + neighbor_sum(self, row, column, k + 1)

live_neighbor_count(self, row, column) == neighbor_sum(self, row, column, 0)

\* (variant: a Dead cell with two live neighbours is born too)
next_cell_birth_on_two(cell, live_neighbors) ==
    IF cell = Alive /\ live_neighbors < 2 THEN Dead
    ELSE IF cell = Alive /\ live_neighbors \in {2, 3} THEN Alive
    ELSE IF cell = Alive /\ live_neighbors > 3 THEN Dead
    ELSE IF cell = Dead /\ live_neighbors \in {2, 3} THEN Alive
    ELSE cell

\* (variant: an Alive cell with more than three live neighbours lives on)
next_cell_crowded_lives(cell, live_neighbors) ==
    IF cell = Alive /\ live_neighbors < 2 THEN Dead
    ELSE IF cell = Alive /\ live_neighbors \in {2, 3} THEN Alive
    ELSE IF cell = Alive /\ live_neighbors > 3 THEN Alive
    ELSE IF cell = Dead /\ live_neighbors = 3 THEN Alive
    ELSE cell

\* (variant: an Alive cell with three live neighbours dies)
next_cell_three_dies(cell, live_neighbors) ==
    IF cell = Alive /\ live_neighbors < 2 THEN Dead
    ELSE IF cell = Alive /\ live_neighbors = 2 THEN Alive
    ELSE IF cell = Alive /\ live_neighbors > 2 THEN Dead
    ELSE IF cell = Dead /\ live_neighbors = 3 THEN Alive
    ELSE cell

\* the match of tick, arm by arm
next_cell(cell, live_neighbors) ==
    IF cell = Alive /\ live_neighbors < 2 THEN Dead
    ELSE IF cell = Alive /\ live_neighbors \in {2, 3} THEN Alive
    ELSE IF cell = Alive /\ live_neighbors > 3 THEN Dead
    ELSE IF cell = Dead /\ live_neighbors = 3 THEN Alive
    ELSE cell

\* live_neighbor_count panics: height - 1 or width - 1 below zero (a build
\* with overflow checks) or a remainder by zero, or an index outside the
\* cells (the rows read are below height and the columns below width, so
\* there is none when the cells are width * height or more)
count_panics(self, row, column) ==
    \/ self.height = 0
    \/ self.width = 0
    \/ /\ Len(self.cells) < self.width * self.height
       /\ \E k \in 0..8 : neighbor_read(self, row, column, k) >= Len(self.cells)

\* The loops of tick carry next, the number of calls of live_neighbor_count
\* made (counted) and whether a pass has panicked; no pass runs after a panic.
TickStart(self) == [cells |-> self.cells, counted |-> 0, panicked |-> FALSE]

\* one pass: let idx = ...; let cell = self.cells[idx];
\* let live_neighbors = ...; next[idx] = next_cell;
tick_pass(self, loop, row, col) ==
    LET idx == get_index(self, row, col) IN
    IF idx >= Len(self.cells) THEN [loop EXCEPT !.panicked = TRUE]
    ELSE IF count_panics(self, row, col)
    THEN [loop EXCEPT !.counted = @ + 1, !.panicked = TRUE]
    ELSE LET cell == self.cells[idx + 1]
             live_neighbors == live_neighbor_count(self, row, col)
         IN  [loop EXCEPT !.cells[idx + 1] = next_cell(cell, live_neighbors),
                          !.counted = @ + 1]

\* for col in 0..self.width { ... } of one row, from col on
\* (the test on the counter makes TLC evaluate a pass before the next one)
RECURSIVE tick_cols(_, _, _, _)
tick_cols(self, loop, row, col) ==
    IF col >= self.width \/ loop.panicked THEN loop
    ELSE LET done == tick_pass(self, loop, row, col)
         IN  IF done.counted >= 0 THEN tick_cols(self, done, row, col + 1) ELSE done

\* (variant: the range 0..=self.height)
RECURSIVE tick_rows_one_more(_, _, _)
tick_rows_one_more(self, loop, row) ==
    IF row > self.height \/ loop.panicked THEN loop
    ELSE LET done == tick_cols(self, loop, row, 0)
         IN  IF done.counted >= 0 THEN tick_rows_one_more(self, done, row + 1) ELSE done

\* for row in 0..self.height { ... } from row on
RECURSIVE tick_rows(_, _, _)
tick_rows(self, loop, row) ==
    IF row >= self.height \/ loop.panicked THEN loop
    ELSE LET done == tick_cols(self, loop, row, 0)
         IN  IF done.counted >= 0 THEN tick_rows(self, done, row + 1) ELSE done

\* (variant: the same loops reading the cells already written in this
\* generation, that is without the copy in next)
RECURSIVE tick_cols_in_place(_, _, _, _)
tick_cols_in_place(self, loop, row, col) ==
    IF col >= self.width \/ loop.panicked THEN loop
    ELSE LET done == tick_pass([self EXCEPT !.cells = loop.cells], loop, row, col)
         IN  IF done.counted >= 0 THEN tick_cols_in_place(self, done, row, col + 1)
             ELSE done

RECURSIVE tick_rows_in_place(_, _, _)
tick_rows_in_place(self, loop, row) ==
    IF row >= self.height \/ loop.panicked THEN loop
    ELSE LET done == tick_cols_in_place(self, loop, row, 0)
         IN  IF done.counted >= 0 THEN tick_rows_in_place(self, done, row + 1) ELSE done

\* what a tick leaves: self.cells = next unless a pass panicked (counted: the
\* calls of live_neighbor_count it made)
TickEnd(self, loop) ==
    [width |-> self.width, height |-> self.height,
     cells |-> IF loop.panicked THEN self.cells ELSE loop.cells,
     panicked |-> loop.panicked, counted |-> loop.counted]

tick_in_place(self) == TickEnd(self, tick_rows_in_place(self, TickStart(self), 0))

\* (variant: the rows run over 0..=self.height)
tick_one_more_row(self) == TickEnd(self, tick_rows_one_more(self, TickStart(self), 0))

\* let mut next = self.cells.clone(); the loops; self.cells = next;
tick(self) == TickEnd(self, tick_rows(self, TickStart(self), 0))

----------------------------------------------------------------------------
(* Pattern stamping                                                        *)

glider == << <<0, 1>>, <<1, 2>>, <<2, 0>>, <<2, 1>>, <<2, 2>> >>

\* (variant: the table without its last offset)
pulsar_without_last ==
    << <<2, 4>>, <<2, 5>>, <<2, 6>>, <<2, 10>>, <<2, 11>>, <<2, 12>>,
       <<4, 2>>, <<4, 7>>, <<4, 9>>, <<4, 14>>,
       <<5, 2>>, <<5, 7>>, <<5, 9>>, <<5, 14>>,
       <<6, 2>>, <<6, 7>>, <<6, 9>>, <<6, 14>>,
       <<7, 4>>, <<7, 5>>, <<7, 6>>, <<7, 10>>, <<7, 11>>, <<7, 12>>,
       <<9, 4>>, <<9, 5>>, <<9, 6>>, <<9, 10>>, <<9, 11>>, <<9, 12>>,
       <<10, 2>>, <<10, 7>>, <<10, 9>>, <<10, 14>>,
       <<11, 2>>, <<11, 7>>, <<11, 9>>, <<11, 14>>,
       <<12, 2>>, <<12, 7>>, <<12, 9>>, <<12, 14>>,
       <<14, 4>>, <<14, 5>>, <<14, 6>>, <<14, 10>>, <<14, 11>> >>

pulsar ==
    << <<2, 4>>, <<2, 5>>, <<2, 6>>, <<2, 10>>, <<2, 11>>, <<2, 12>>,
       <<4, 2>>, <<4, 7>>, <<4, 9>>, <<4, 14>>,
       <<5, 2>>, <<5, 7>>, <<5, 9>>, <<5, 14>>,
       <<6, 2>>, <<6, 7>>, <<6, 9>>, <<6, 14>>,
       <<7, 4>>, <<7, 5>>, <<7, 6>>, <<7, 10>>, <<7, 11>>, <<7, 12>>,
       <<9, 4>>, <<9, 5>>, <<9, 6>>, <<9, 10>>, <<9, 11>>, <<9, 12>>,
       <<10, 2>>, <<10, 7>>, <<10, 9>>, <<10, 14>>,
       <<11, 2>>, <<11, 7>>, <<11, 9>>, <<11, 14>>,
       <<12, 2>>, <<12, 7>>, <<12, 9>>, <<12, 14>>,
       <<14, 4>>, <<14, 5>>, <<14, 6>>, <<14, 10>>, <<14, 11>>, <<14, 12>> >>

gosper_glider_gun ==
    << <<1, 25>>,
       <<2, 23>>, <<2, 25>>,
       <<3, 13>>, <<3, 14>>, <<3, 21>>, <<3, 22>>, <<3, 35>>, <<3, 36>>,
       <<4, 12>>, <<4, 16>>, <<4, 21>>, <<4, 22>>, <<4, 35>>, <<4, 36>>,
       <<5, 1>>, <<5, 2>>, <<5, 11>>, <<5, 17>>, <<5, 21>>, <<5, 22>>,
       <<6, 1>>, <<6, 2>>, <<6, 11>>, <<6, 15>>, <<6, 17>>, <<6, 18>>, <<6, 23>>, <<6, 25>>,
       <<7, 11>>, <<7, 17>>, <<7, 25>>,
       <<8, 12>>, <<8, 16>>,
       <<9, 13>>, <<9, 14>> >>

\* One pass of a loop body
\*     let r = (start_row + row) % self.height;
\*     let c = (start_col + col) % self.width;
\*     let idx = self.get_index(r, c);
\*     self.cells[idx] = <value>;
\* panics on an overflowing sum (a build with overflow checks), on a
\* remainder by zero and on an index outside the vector.  Neither the
\* panic nor the index depends on the cells.  The operator gives the index
\* the pass writes at, or -1 if the pass panics.
\* (variant: the column is taken without % self.width)
pass_outcome_no_remainder(self, oc, start_row, start_col, row, col) ==
    IF (oc /\ add_overflows(start_row, row)) \/ self.height = 0 THEN -1
    ELSE IF (oc /\ add_overflows(start_col, col)) \/ self.width = 0 THEN -1
    ELSE LET r == rem_u32(start_row + row, self.height)
             c == start_col + col
             idx == get_index(self, r, c)
         IN  IF 0 <= idx /\ idx < Len(self.cells) THEN idx ELSE -1

pass_outcome(self, oc, start_row, start_col, row, col) ==
    IF (oc /\ add_overflows(start_row, row)) \/ self.height = 0 THEN -1
    ELSE IF (oc /\ add_overflows(start_col, col)) \/ self.width = 0 THEN -1
    ELSE LET r == rem_u32(start_row + row, self.height)
             c == rem_u32(start_col + col, self.width)
             idx == get_index(self, r, c)
         IN  IF idx < Len(self.cells) THEN idx ELSE -1

\* A loop whose passes all write the same value: passes is the sequence of
\* the (row, col) of its passes in the order the loop takes them.  The
\* passes before the first panicking one write, the others never run.
write_passes(self, oc, start_row, start_col, passes, value) ==
    LET outcome == [k \in 1..Len(passes) |->
                      pass_outcome(self, oc, start_row, start_col, passes[k][1], passes[k][2])]
        bad == {k \in 1..Len(passes) : outcome[k] = -1}
        done == IF bad = {} THEN Len(passes)
                ELSE (CHOOSE k \in bad : \A j \in bad : k <= j) - 1
        written == {outcome[k] : k \in 1..done}
    IN  [self EXCEPT !.cells = [i \in 1..Len(self.cells) |->
                                  IF (i - 1) \in written THEN value ELSE self.cells[i]],
                     !.panicked = (bad # {})]

\* for row in 0..height { for col in 0..width { ... } }: pass k (from 1) is
\* row (k - 1) div width, col (k - 1) mod width
area_passes(h, w) == [k \in 1..(h * w) |-> <<(k - 1) \div w, (k - 1) % w>>]

\* (variant: the loops run over the grid's own height and width)
clear_area_whole_grid(self, oc, start_row, start_col, h, w) ==
    write_passes(self, oc, start_row, start_col, area_passes(self.height, self.width), Dead)

\* (variant: the rectangle is not cleared)
clear_area_nothing(self, oc, start_row, start_col, h, w) == self

clear_area(self, oc, start_row, start_col, h, w) ==
    write_passes(self, oc, start_row, start_col, area_passes(h, w), Dead)

\* for &(row, col) in &pattern { ... self.cells[idx] = Cell::Alive; }
\* which runs only if clear_area returned
stamp(self, oc, start_row, start_col, pattern) ==
    IF self.panicked THEN self
    ELSE write_passes(self, oc, start_row, start_col, pattern, Alive)

\* (variant: an unrecognised name clears a 3x3 rectangle)
unknown_pattern_clears(self, oc, start_row, start_col) ==
    clear_area(self, oc, start_row, start_col, 3, 3)

\* the arm of set_pattern for an unrecognised name: log!(...) and nothing else
unknown_pattern(self, oc, start_row, start_col) == self

set_pattern(self, oc, pattern, start_row, start_col) ==
    CASE pattern = "glider" ->
           stamp(clear_area(self, oc, start_row, start_col, 3, 3),
                 oc, start_row, start_col, glider)
      [] pattern = "pulsar" ->
           stamp(clear_area(self, oc, start_row, start_col, 17, 17),
                 oc, start_row, start_col, pulsar)
      [] pattern = "gosper_glider_gun" ->
           stamp(clear_area(self, oc, start_row, start_col, 11, 38),
                 oc, start_row, start_col, gosper_glider_gun)
      [] OTHER -> unknown_pattern(self, oc, start_row, start_col)

----------------------------------------------------------------------------
(* The calls, as actions on the one Universe the host holds.               *)
(*                                                                         *)
(* hist.tracking tells a scenario from the free run of the calls.  A       *)
(* scenario starts from a drawn grid (hist.prior), stamps hist.figure at   *)
(* (hist.a, hist.b) if it is a pattern, and follows the generations of     *)
(* hist.cells, counting them in hist.ticks.                                *)

Becomes(u) ==
    /\ width' = u.width
    /\ height' = u.height
    /\ cells' = u.cells
    /\ panicked' = u.panicked

\* arg: the dimension given to set_width or set_height (for tick: the calls
\* of live_neighbor_count it made); redo: that dimension
\* is the one the grid had, and the grid had an Alive cell (for new: the
\* call is not the first one); fits: no sum of set_pattern passed 2^32
Called(op, name, arg, redo) ==
    [op |-> op, name |-> name, arg |-> arg, redo |-> redo, fits |-> TRUE]

SomeAlive == \E i \in 1..Len(cells) : cells[i] = Alive

NoHist ==
    [tracking |-> FALSE, figure |-> "", stamped |-> FALSE, a |-> 0, b |-> 0,
     prior |-> <<>>, cells |-> <<>>, ticks |-> 0]

Scenario(figure, a, b, cs) ==
    [tracking |-> TRUE, figure |-> figure, stamped |-> FALSE, a |-> a, b |-> b,
     prior |-> cs, cells |-> cs, ticks |-> 0]

RecognizedNames == {"glider", "pulsar", "gosper_glider_gun"}

BoxHeight(pattern) ==
    CASE pattern = "glider" -> 3 [] pattern = "pulsar" -> 17 [] pattern = "gosper_glider_gun" -> 11

BoxWidth(pattern) ==
    CASE pattern = "glider" -> 3 [] pattern = "pulsar" -> 17 [] pattern = "gosper_glider_gun" -> 38

\* start_row plus the last row offset of the rectangle that set_pattern
\* clears and start_col plus its last column offset stay within 32 bits
\* (an unrecognised name adds nothing)
Fits(pattern, start_row, start_col) ==
    pattern \in RecognizedNames
       => /\ ~add_overflows(start_row, BoxHeight(pattern) - 1)
          /\ ~add_overflows(start_col, BoxWidth(pattern) - 1)

PatternNames == RecognizedNames \cup {"not_a_pattern"}

\* 2^32 - 1 and 2^32 - n
BelowTop(n) == {0 - 1, 0 - n}

\* 2^31
HalfWay == (0 - 2147483647) - 1

Starts ==
    IF hist.tracking
    THEN (0..MaxStampStart) \cup {HalfWay} \cup BelowTop(MaxStampBelowTop)
    ELSE (0..MaxStart) \cup {HalfWay} \cup BelowTop(MaxBelowTop)

Explored == width * height <= MaxCells

Init ==
    /\ width = new.width
    /\ height = new.height
    /\ cells = new.cells
    /\ panicked = new.panicked
    /\ overflow_checks \in BOOLEAN
    /\ call = Called("new", "", 0, FALSE)
    /\ hist = NoHist

\* the host replaces its Universe by the one of another Universe::new()
New ==
    /\ ~panicked
    /\ Becomes(new)
    /\ call' = Called("new", "", 0, TRUE)
    /\ UNCHANGED <<overflow_checks, hist>>

SetWidth ==
    /\ ~panicked
    /\ \E w \in 0..MaxDim :
          /\ Becomes(set_width(Self, w))
          /\ call' = Called("set_width", "", w, w = width /\ SomeAlive)
    /\ UNCHANGED <<overflow_checks, hist>>

SetHeight ==
    /\ ~panicked
    /\ \E h \in 0..MaxDim :
          /\ Becomes(set_height(Self, h))
          /\ call' = Called("set_height", "", h, h = height /\ SomeAlive)
    /\ UNCHANGED <<overflow_checks, hist>>

\* a scenario toggles one cell, (hist.a, hist.b), again and again and counts
\* the calls in hist.ticks
ToggleCell ==
    /\ ~panicked
    /\ IF hist.tracking THEN hist.ticks < MaxTicks ELSE Explored
    /\ \E row \in (IF ~hist.tracking THEN 0..(MaxDim - 1)
                    ELSE IF hist.ticks = 0 THEN 0..(MaxLifeDim - 1) ELSE {hist.a}),
          column \in (IF ~hist.tracking THEN 0..(MaxDim - 1)
                       ELSE IF hist.ticks = 0 THEN 0..(MaxLifeDim - 1) ELSE {hist.b}) :
          /\ Becomes(toggle_cell(Self, row, column))
          /\ hist' = IF hist.tracking
                     THEN [hist EXCEPT !.a = row, !.b = column, !.ticks = @ + 1]
                     ELSE hist
    /\ call' = Called("toggle_cell", "", 0, FALSE)
    /\ UNCHANGED overflow_checks

SetPattern ==
    /\ ~panicked
    /\ IF hist.tracking THEN call.op = "none" ELSE Explored
    /\ \E pattern \in (IF hist.tracking THEN {hist.figure} ELSE PatternNames) :
       \E start_row \in Starts, start_col \in Starts :
          LET u == set_pattern(Self, overflow_checks, pattern, start_row, start_col) IN
          /\ Becomes(u)
          /\ call' = [Called("set_pattern", pattern, 0, FALSE)
                         EXCEPT !.fits = Fits(pattern, start_row, start_col)]
          /\ hist' = IF hist.tracking
                     THEN [hist EXCEPT !.stamped = TRUE, !.a = start_row, !.b = start_col,
                                       !.cells = u.cells]
                     ELSE hist
    /\ UNCHANGED overflow_checks

Clear ==
    /\ ~panicked
    /\ Becomes(clear(Self))
    /\ call' = Called("clear", "", 0, FALSE)
    /\ UNCHANGED <<overflow_checks, hist>>

Randomize ==
    /\ ~panicked
    /\ \E seed \in 0..MaxSeed : Becomes(randomize(Self, seed))
    /\ call' = Called("randomize", "", 0, FALSE)
    /\ UNCHANGED <<overflow_checks, hist>>

Tick ==
    /\ ~panicked
    /\ IF hist.tracking THEN hist.ticks < MaxTicks ELSE Explored
    /\ LET u == tick(Self) IN
          /\ Becomes(u)
          /\ call' = Called("tick", "", u.counted, FALSE)
    /\ hist' = IF hist.tracking THEN [hist EXCEPT !.ticks = @ + 1] ELSE hist
    /\ UNCHANGED overflow_checks

Next ==
    \/ New
    \/ SetWidth
    \/ SetHeight
    \/ ToggleCell
    \/ SetPattern
    \/ Clear
    \/ Randomize
    \/ Tick

\* every sequence of calls on the Universe that new() returns
Spec == Init /\ [][Next]_vars

----------------------------------------------------------------------------
(* Scenarios.  Each starts from a grid the calls above can build           *)
(* (set_width, set_height, then toggle_cell cell by cell).                 *)

\* the grid of w columns and h rows whose Alive cells are those at the (row, col) of alive
GridOf(w, h, alive) ==
    [i \in 1..(w * h) |-> IF <<(i - 1) \div w, (i - 1) % w>> \in alive THEN Alive ELSE Dead]

Figures == {"blinker_row", "blinker_column", "block"}

\* three cells in a row or in a column centred at (a, b), or the 2x2 block
\* whose top left cell is (a, b), on the torus
FigureCells(figure, w, h, a, b) ==
    CASE figure = "blinker_row" -> {<<a, (b + w - 1) % w>>, <<a, b>>, <<a, (b + 1) % w>>}
      [] figure = "blinker_column" -> {<<(a + h - 1) % h, b>>, <<a, b>>, <<(a + 1) % h, b>>}
      [] figure = "block" -> {<<a, b>>, <<a, (b + 1) % w>>,
                              <<(a + 1) % h, b>>, <<(a + 1) % h, (b + 1) % w>>}

ScenarioStart(w, h, cs, figure, a, b) ==
    /\ width = w
    /\ height = h
    /\ cells = cs
    /\ panicked = FALSE
    /\ overflow_checks \in BOOLEAN
    /\ call = Called("none", "", 0, FALSE)
    /\ hist = Scenario(figure, a, b, cs)

\* any small grid, or a blinker or a block alone on a larger one
LifeInit ==
    \/ \E w \in 0..MaxLifeDim, h \in 0..MaxLifeDim :
          /\ w * h <= MaxLifeCells
          /\ \E cs \in [1..(w * h) -> {Dead, Alive}] : ScenarioStart(w, h, cs, "drawn", 0, 0)
    \/ \E figure \in Figures, w \in 4..MaxFigureDim, h \in 4..MaxFigureDim :
       \E a \in 0..(h - 1), b \in 0..(w - 1) :
          ScenarioStart(w, h, GridOf(w, h, FigureCells(figure, w, h, a, b)), figure, a, b)

\* the generations of a drawn grid or of a hand-set figure
SpecLife == LifeInit /\ [][Tick]_vars

\* any small grid with any contents, to toggle a cell of
ToggleInit ==
    \E w \in 0..MaxLifeDim, h \in 0..MaxLifeDim :
       /\ w * h <= MaxToggleCells
       /\ \E cs \in [1..(w * h) -> {Dead, Alive}] : ScenarioStart(w, h, cs, "toggled", 0, 0)

\* one cell of a drawn grid toggled again and again
SpecToggle == ToggleInit /\ [][ToggleCell]_vars

\* an all-Dead grid with room for the glider or for the pulsar
StampInit ==
    \/ \E w \in 5..MaxGliderDim, h \in 5..MaxGliderDim :
          ScenarioStart(w, h, AllDead(w * h), "glider", 0, 0)
    \/ \E w \in 17..MaxPulsarDim, h \in 17..MaxPulsarDim :
          ScenarioStart(w, h, AllDead(w * h), "pulsar", 0, 0)

StampNext == SetPattern \/ Tick

\* a pattern stamped on an all-Dead grid, and its generations
SpecStamp == StampInit /\ [][StampNext]_vars

\* the offset table of a recognized name
Table(pattern) ==
    CASE pattern = "glider" -> glider
      [] pattern = "pulsar" -> pulsar
      [] pattern = "gosper_glider_gun" -> gosper_glider_gun

\* any small grid with any contents, or an all-Alive grid with room for the pattern
OverlayInit ==
    \E figure \in RecognizedNames :
       \/ \E w \in 0..MaxLifeDim, h \in 0..MaxLifeDim :
             /\ w * h <= MaxOverlayCells
             /\ \E cs \in [1..(w * h) -> {Dead, Alive}] : ScenarioStart(w, h, cs, figure, 0, 0)
       \/ \E dw \in 0..1, dh \in 0..1 :
             LET w == BoxWidth(figure) + dw
                 h == BoxHeight(figure) + dh
             IN  ScenarioStart(w, h, [i \in 1..(w * h) |-> Alive], figure, 0, 0)

\* a pattern stamped over a grid with contents
SpecOverlay == OverlayInit /\ [][SetPattern]_vars

----------------------------------------------------------------------------
(* Properties of the calls on the Universe of new() (Spec).                *)

\* C1: from new() on, after every call of set_width, set_height,
\* toggle_cell, set_pattern, clear, randomize and tick, the length of the
\* cells equals width * height.
C1_DimensionInvariant == Len(cells) = width * height

\* a resize has left a grid that is not square and not empty
C1_Witness ==
    /\ call.op = "set_width"
    /\ width > 0
    /\ width # height
    /\ Len(cells) = width * height

\* C6: set_pattern with a name other than "glider", "pulsar" and
\* "gosper_glider_gun" leaves width, height and every cell as they were and
\* does not panic, whatever start_row and start_col.
C6_UnknownPatternNoOp ==
    [][(call'.op = "set_pattern" /\ call'.name \notin RecognizedNames)
          => /\ width' = width
             /\ height' = height
             /\ cells' = cells
             /\ ~panicked']_vars

\* an unknown name was given on a grid that has an Alive cell
C6_Witness ==
    /\ call.op = "set_pattern"
    /\ call.name = "not_a_pattern"
    /\ SomeAlive
    /\ ~panicked

\* C10: set_width(w) sets width to w, keeps height and leaves all-Dead cells
\* of length w * height; set_height(h) sets height to h, keeps width and
\* leaves all-Dead cells of length width * h: no cell content survives, also
\* when the dimension given is the one the grid had.
C10_ResizeResets ==
    [][/\ call'.op = "set_width"
            => /\ width' = call'.arg
               /\ height' = height
               /\ cells' = AllDead(call'.arg * height)
       /\ call'.op = "set_height"
            => /\ height' = call'.arg
               /\ width' = width
               /\ cells' = AllDead(width * call'.arg)]_vars

\* set_height was given the height the grid had, and the Alive cell the grid
\* had is gone
C10_Witness ==
    /\ call.op = "set_height"
    /\ call.redo
    /\ call.arg = height
    /\ Len(cells) > 0
    /\ ~SomeAlive

----------------------------------------------------------------------------
(* Properties of the generations of a drawn grid (SpecLife).               *)

\* C2: tick applies the rule to all cells at once: the cell after the tick
\* depends only on the cell before it and on its live neighbours n before
\* it (Alive with n < 2 dies, Alive with n in {2, 3} lives, Alive with n > 3
\* dies, Dead with n = 3 becomes Alive, any other cell stays), so no update
\* reads a cell this tick has already written.
C2_TickSimultaneous ==
    [][call'.op = "tick"
          => /\ width' = width
             /\ height' = height
             /\ Len(cells') = Len(cells)
             /\ \A row \in 0..(height - 1), col \in 0..(width - 1) :
                   LET i == row * width + col + 1
                       n == live_neighbor_count(Self, row, col)
                   IN  cells'[i] = CASE cells[i] = Alive /\ n < 2 -> Dead
                                     [] cells[i] = Alive /\ n \in {2, 3} -> Alive
                                     [] cells[i] = Alive /\ n > 3 -> Dead
                                     [] cells[i] = Dead /\ n = 3 -> Alive
                                     [] OTHER -> cells[i]]_vars

\* a first tick that changed the drawn grid and left Alive cells
C2_Witness ==
    /\ call.op = "tick"
    /\ hist.figure = "drawn"
    /\ hist.ticks = 1
    /\ cells # hist.cells
    /\ SomeAlive

\* C3: on every grid with positive width and height, 1 and 2 included, the
\* live neighbours tick counts for a cell (row, col) are the Alive cells at
\* the 8 offsets of {-1, 0, 1} x {-1, 0, 1} other than (0, 0), each offset
\* wrapped modulo height and width and counted once.
C3_EightWrappedOffsets ==
    [][(call'.op = "tick" /\ width > 0 /\ height > 0)
          => \A row \in 0..(height - 1), col \in 0..(width - 1) :
                live_neighbor_count(Self, row, col) =
                   Cardinality({o \in ({-1, 0, 1} \X {-1, 0, 1}) \ {<<0, 0>>} :
                                  cells[((row + o[1] + height) % height) * width
                                          + ((col + o[2] + width) % width) + 1] = Alive})]_vars

\* C8: on a grid of at least 5 rows and 5 columns that is Dead but for three
\* Alive cells in a line, one tick gives the three cells of the
\* perpendicular line through the same centre and two ticks give the
\* original grid again.
C8_BlinkerPeriodTwo ==
    (hist.figure \in {"blinker_row", "blinker_column"} /\ width >= 5 /\ height >= 5)
       => LET other == IF hist.figure = "blinker_row" THEN "blinker_column"
                       ELSE "blinker_row"
          IN  IF hist.ticks % 2 = 1
              THEN cells = GridOf(width, height,
                                  FigureCells(other, width, height, hist.a, hist.b))
              ELSE cells = hist.cells

\* a blinker in the first row, reaching over the edge, after two ticks
C8_Witness ==
    /\ hist.figure = "blinker_row"
    /\ width >= 5
    /\ height >= 5
    /\ hist.a = 0
    /\ hist.b = 0
    /\ hist.ticks = 2
    /\ cells = hist.cells
    /\ SomeAlive

\* C9: on a grid of at least 4 rows and 4 columns that is Dead but for a
\* 2x2 block of Alive cells, anywhere, over the wrapped edges too, tick
\* changes nothing, and so no number of ticks does.
C9_BlockStill ==
    (hist.figure = "block" /\ width >= 4 /\ height >= 4) => cells = hist.cells

\* a block over the last and the first row and column, after some ticks
C9_Witness ==
    /\ hist.figure = "block"
    /\ hist.a = height - 1
    /\ hist.b = width - 1
    /\ hist.ticks >= 2
    /\ cells = hist.cells
    /\ Cardinality({i \in 1..Len(cells) : cells[i] = Alive}) = 4

----------------------------------------------------------------------------
(* Properties of a stamped pattern (SpecStamp, SpecOverlay).               *)

\* the scenario's pattern has been stamped at (hist.a, hist.b) and the call
\* returned
Stamped == hist.stamped /\ hist.ticks = 0 /\ ~panicked

\* the flat index (from 1) of the cell at offset (dr, dc) from the anchor on
\* the torus: row (start_row + dr) mod height, column (start_col + dc) mod width
TorusImage(dr, dc) ==
    ((rem_u32(hist.a, height) + dr) % height) * width
       + ((rem_u32(hist.b, width) + dc) % width) + 1

\* the cells of the wrapped bounding box, and those of the table's offsets
BoxCells ==
    LET rows == {(rem_u32(hist.a, height) + dr) % height :
                    dr \in 0..(BoxHeight(hist.figure) - 1)}
        cols == {(rem_u32(hist.b, width) + dc) % width :
                    dc \in 0..(BoxWidth(hist.figure) - 1)}
    IN  {r * width + c + 1 : r \in rows, c \in cols}

TableCells ==
    {TorusImage(Table(hist.figure)[k][1], Table(hist.figure)[k][2]) :
        k \in 1..Len(Table(hist.figure))}

AliveCells == {i \in 1..Len(cells) : cells[i] = Alive}

\* start_row plus the last row offset of the box, and start_col plus its last
\* column offset, stay within 32 bits
AnchorFits ==
    /\ ~add_overflows(hist.a, BoxHeight(hist.figure) - 1)
    /\ ~add_overflows(hist.b, BoxWidth(hist.figure) - 1)

\* C4, as claimed: after set_pattern with a recognized name at any anchor,
\* whatever the grid held, every cell of the wrapped bounding box that is
\* the wrapped image of an offset of the table is Alive and every other cell
\* of the wrapped bounding box is Dead.
C4_BoxContentsAnyAnchor ==
    Stamped => \A i \in BoxCells : cells[i] = (IF i \in TableCells THEN Alive ELSE Dead)

\* C4, amended: the same for every anchor for which start_row plus the last
\* row offset of the box and start_col plus its last column offset stay
\* within 32 bits.
C4_BoxContents ==
    (Stamped /\ AnchorFits)
       => \A i \in BoxCells : cells[i] = (IF i \in TableCells THEN Alive ELSE Dead)

\* a pattern was stamped over an Alive cell that its table leaves Dead
C4_Witness ==
    /\ Stamped
    /\ AnchorFits
    /\ \E i \in BoxCells \ TableCells : hist.prior[i] = Alive /\ cells[i] = Dead
    /\ \E i \in TableCells : cells[i] = Alive

\* C5, as claimed: "pulsar" stamped on an all-Dead grid of at least 17 rows
\* and 17 columns leaves exactly 36 Alive cells, all in the 17x17 bounding
\* box at (start_row, start_col).
C5_PulsarThirtySix ==
    (Stamped /\ hist.figure = "pulsar" /\ width >= 17 /\ height >= 17)
       => Cardinality(AliveCells) = 36 /\ AliveCells \subseteq BoxCells

\* C5, amended: it leaves exactly 48 Alive cells, all in that box, when
\* start_row + 16 and start_col + 16 stay within 32 bits.
C5_PulsarFortyEight ==
    (Stamped /\ hist.figure = "pulsar" /\ width >= 17 /\ height >= 17 /\ AnchorFits)
       => Cardinality(AliveCells) = 48 /\ AliveCells \subseteq BoxCells

\* a pulsar stamped over the edges of a grid wider than its box
C5_Witness ==
    /\ Stamped
    /\ hist.figure = "pulsar"
    /\ AnchorFits
    /\ hist.a > 0
    /\ hist.b > 0
    /\ width > 17
    /\ height >= 17
    /\ Cardinality(AliveCells) = 48

\* C7: on an all-Dead grid of at least 5 rows and 5 columns, "glider"
\* stamped at (0, 0) and four ticks give the grid whose Alive cells are the
\* five offsets of the glider moved by (1, 1), modulo height and width.
C7_GliderTranslation ==
    (hist.figure = "glider" /\ hist.stamped /\ hist.a = 0 /\ hist.b = 0
        /\ hist.ticks = 4 /\ ~panicked /\ width >= 5 /\ height >= 5)
       => cells = GridOf(width, height,
                         {<<(o[1] + 1) % height, (o[2] + 1) % width>> :
                            o \in {<<0, 1>>, <<1, 2>>, <<2, 0>>, <<2, 1>>, <<2, 2>>}})

\* the glider of (0, 0) after its four ticks
C7_Witness ==
    /\ hist.figure = "glider"
    /\ hist.stamped
    /\ hist.a = 0
    /\ hist.b = 0
    /\ hist.ticks = 4
    /\ ~panicked
    /\ width = 5
    /\ Cardinality(AliveCells) = 5

----------------------------------------------------------------------------
(* Properties of single calls (Spec).                                      *)

\* C11: new() returns a grid of width 64, height 64 and 4096 cells whose
\* cell of flat index i is Alive if and only if i % 2 = 0 or i % 7 = 0
\* (index 0 Alive, index 1 Dead, index 7 Alive); being fixed cell by cell,
\* the grid of any two calls is the same.
C11_NewGrid ==
    call.op = "new"
       => /\ width = 64
          /\ height = 64
          /\ Len(cells) = 4096
          /\ \A i \in 0..4095 :
                cells[i + 1] = (IF i % 2 = 0 \/ i % 7 = 0 THEN Alive ELSE Dead)
          /\ cells[0 + 1] = Alive /\ cells[1 + 1] = Dead /\ cells[7 + 1] = Alive

\* the grid of a second new()
C11_Witness ==
    /\ call.op = "new"
    /\ call.redo
    /\ Len(cells) = 4096
    /\ cells[7 + 1] = Alive
    /\ cells[9 + 1] = Dead

\* C12: for row < height and column < width, toggle_cell(row, column) flips
\* the cell at flat offset row * width + column between Alive and Dead and
\* leaves every other cell, width and height as they were; a second call
\* with the same arguments gives the original grid again.
C12_ToggleCell ==
    [][(call'.op = "toggle_cell" /\ hist'.a < height /\ hist'.b < width)
          => /\ ~panicked'
             /\ width' = width
             /\ height' = height
             /\ Len(cells') = Len(cells)
             /\ \A i \in 0..(Len(cells) - 1) :
                   cells'[i + 1] = IF i # hist'.a * width + hist'.b THEN cells[i + 1]
                                   ELSE IF cells[i + 1] = Alive THEN Dead
                                   ELSE Alive
             /\ hist'.ticks = 2 => cells' = hist.prior]_vars

\* the last cell of a grid that is not square, Alive at first, toggled twice
C12_Witness ==
    /\ call.op = "toggle_cell"
    /\ hist.ticks = 2
    /\ width > 1
    /\ height > width
    /\ hist.a = height - 1
    /\ hist.b = width - 1
    /\ cells = hist.prior
    /\ cells[Len(cells)] = Alive
    /\ ~panicked

\* C13: on a grid of width W and height H, the cell that neighbour counting
\* reads for the cell (0, 0) at the offset (-1, -1), its first pass, is the
\* cell of row H - 1 and column W - 1, at flat offset (H - 1) * W + (W - 1).
C13_CornerNeighbour ==
    [][(call'.op = "tick" /\ width > 0 /\ height > 0)
          => neighbor_read(Self, 0, 0, 0) = (height - 1) * width + (width - 1)]_vars

\* C14: on a grid with positive width and height, tick, clear, set_width,
\* set_height and set_pattern (any name and any start_row and start_col for
\* which start plus the largest offset stays within 32 bits, on grids
\* smaller than the bounding box too) complete without a panic: every cell
\* index they compute is below width * height.
C14_NoFailure ==
    [][(width > 0 /\ height > 0 /\ call'.fits
          /\ call'.op \in {"tick", "clear", "set_width", "set_height", "set_pattern"})
          => /\ ~panicked'
             /\ call'.op = "tick"
                  => \A row \in 0..(height - 1), col \in 0..(width - 1) :
                        /\ get_index(Self, row, col) < width * height
                        /\ \A k \in 0..8 :
                              neighbor_read(Self, row, col, k) < width * height]_vars

\* a recognized pattern stamped on a grid smaller than its bounding box
C14_Witness ==
    /\ call.op = "set_pattern"
    /\ call.name \in RecognizedNames
    /\ call.fits
    /\ width > 0
    /\ height > 0
    /\ SomeAlive
    /\ ~panicked

\* C16: on a grid whose width or height is 0 (set_width(0) or set_height(0)
\* gives one), tick counts no neighbours, does not panic and leaves width,
\* height and the empty cells as they were.
C16_TickOnEmptyGrid ==
    [][(call'.op = "tick" /\ (width = 0 \/ height = 0))
          => /\ call'.arg = 0
             /\ ~panicked'
             /\ width' = width
             /\ height' = height
             /\ Len(cells) = 0
             /\ Len(cells') = 0]_vars

\* a tick of a grid that has columns but no row
C16_Witness ==
    /\ call.op = "tick"
    /\ width > 0
    /\ height = 0
    /\ Len(cells) = 0
    /\ ~panicked

----------------------------------------------------------------------------
(* More properties of a stamped pattern (SpecOverlay, SpecStamp).          *)

\* C15, as claimed: set_pattern with a recognized name changes no cell
\* outside the wrapped bounding box of the pattern at (start_row, start_col)
\* (3x3, 17x17, 11 rows x 38 columns) and leaves width and height as they
\* were.
C15_OutsideUntouchedAnyAnchor ==
    [][(call'.op = "set_pattern" /\ ~panicked')
          => /\ width' = width
             /\ height' = height
             /\ Len(cells') = Len(cells)
             /\ LET box == BoxCells'
                IN  \A i \in 1..Len(cells) : i \notin box => cells'[i] = cells[i]]_vars

\* C15, amended: the same for every anchor for which start_row plus the last
\* row offset of the box and start_col plus its last column offset stay
\* within 32 bits.
C15_OutsideUntouched ==
    [][(call'.op = "set_pattern" /\ AnchorFits')
          => /\ width' = width
             /\ height' = height
             /\ Len(cells') = Len(cells)
             /\ (width > 0 /\ height > 0)
                  => LET box == BoxCells'
                     IN  \A i \in 1..Len(cells) : i \notin box => cells'[i] = cells[i]]_vars

\* a pattern stamped on a grid larger than its box: an Alive cell outside
\* the box is still Alive and a cell of the box has changed
C15_Witness ==
    /\ Stamped
    /\ AnchorFits
    /\ \E i \in 1..Len(cells) : i \notin BoxCells /\ hist.prior[i] = Alive /\ cells[i] = Alive
    /\ \E i \in BoxCells : hist.prior[i] # cells[i]

\* "pulsar" has been stamped on the all-Dead grid of the scenario, which has
\* at least 17 rows and 17 columns, and every call since has returned
PulsarStamped ==
    /\ hist.figure = "pulsar"
    /\ hist.stamped
    /\ ~panicked
    /\ width >= 17
    /\ height >= 17

\* C17, as claimed: on an all-Dead grid of at least 17 rows and 17 columns,
\* "pulsar" stamped (at whatever anchor) and three ticks give again the grid
\* as it was right after the stamp; one tick and two ticks give another grid.
C17_PulsarPeriodThreeAnyAnchor ==
    PulsarStamped
       => /\ hist.ticks = 3 => cells = hist.cells
          /\ hist.ticks \in {1, 2} => cells # hist.cells

\* C17, amended: the same when start_row + 16 and start_col + 16 stay within
\* 32 bits.
C17_PulsarPeriodThree ==
    (PulsarStamped /\ AnchorFits)
       => /\ hist.ticks = 3 => cells = hist.cells
          /\ hist.ticks \in {1, 2} => cells # hist.cells

\* the pulsar back after its three ticks, stamped over the edges of the grid
C17_Witness ==
    /\ PulsarStamped
    /\ AnchorFits
    /\ hist.a > 0
    /\ hist.b > 0
    /\ hist.ticks = 3
    /\ cells = hist.cells
    /\ Cardinality(AliveCells) = 48

====
